---- MODULE Spec2Model ----
(***************************************************************************)
(* chronox: DateExtractor.extract_dates_from_docx, save_to_spreadsheet and *)
(* main of chronox.py.  Text is a sequence of one-character strings; the   *)
(* regular expressions of the program are evaluated by a backtracking      *)
(* matcher with Python's re semantics (greedy, leftmost, non-overlapping). *)
(***************************************************************************)
EXTENDS Integers, Sequences, FiniteSets, TLC

VARIABLES pc, docx_path, path_exists, document, paraIdx, text, sentences,
          extracted_data, reader_raised, discarded, df, output_path,
          write_failed, attempts, outFile

vars == <<pc, docx_path, path_exists, document, paraIdx, text, sentences,
          extracted_data, reader_raised, discarded, df, output_path,
          write_failed, attempts, outFile>>

(*************************** bounds ****************************************)
\* number of vocabulary tokens a generated document is made of
MaxTokens == 2
\* number of vocabulary tokens of a document in the end-to-end (fair) runs
MainMaxTokens == 2

(*************************** characters ************************************)
Digits == {"0", "1", "2", "3", "4", "5", "6", "7", "8", "9"}

UpperLetters == <<"A","B","C","D","E","F","G","H","I","J","K","L","M",
                  "N","O","P","Q","R","S","T","U","V","W","X","Y","Z">>

LowerLetters == <<"a","b","c","d","e","f","g","h","i","j","k","l","m",
                  "n","o","p","q","r","s","t","u","v","w","x","y","z">>

Range(f) == {f[i] : i \in DOMAIN f}

\* \s of the re module on the characters used here
Whitespace == {" ", "\t", "\n"}

\* \w of the re module: letters, digits and the underscore
WordChars == Digits \cup Range(UpperLetters) \cup Range(LowerLetters) \cup {"_"}

\* the character class [.!?] of the sentence splitter
Terminators == {".", "!", "?"}

\* the character class [-/] of the numeric patterns
Separators == {"-", "/"}

IsSpace(c) == c \in Whitespace

LetterIndex(letters, c) == CHOOSE i \in DOMAIN letters : letters[i] = c

\* str.lower() on one character
LowerChar(c) ==
    IF c \in Range(UpperLetters) THEN LowerLetters[LetterIndex(UpperLetters, c)] ELSE c

\* str.upper() on one character
UpperChar(c) ==
    IF c \in Range(LowerLetters) THEN UpperLetters[LetterIndex(LowerLetters, c)] ELSE c

\* str.lower()
Lower(s) == [i \in DOMAIN s |-> LowerChar(s[i])]

\* str.upper()
Upper(s) == [i \in DOMAIN s |-> UpperChar(s[i])]

\* str.endswith(suffix)
EndsWith(s, suffix) ==
    /\ Len(suffix) <= Len(s)
    /\ SubSeq(s, Len(s) - Len(suffix) + 1, Len(s)) = suffix

\* s[pos:].startswith(lit), pos counted from 0
HasAt(s, pos, lit) ==
    /\ pos + Len(lit) <= Len(s)
    /\ SubSeq(s, pos + 1, pos + Len(lit)) = lit

\* str.strip(): drop leading and trailing whitespace
Strip(s) ==
    LET keep == {i \in DOMAIN s : ~IsSpace(s[i])}
    IN  IF keep = {} THEN <<>>
        ELSE LET lo == CHOOSE i \in keep : \A j \in keep : i <= j
                 hi == CHOOSE i \in keep : \A j \in keep : j <= i
             IN  SubSeq(s, lo, hi)

(*************************** the date patterns *****************************)
\* the alternation Jan(?:uary)?|Feb(?:ruary)?|...|Dec(?:ember)?, in order
Months == <<
    [abbr |-> <<"J","a","n">>, rest |-> <<"u","a","r","y">>],
    [abbr |-> <<"F","e","b">>, rest |-> <<"r","u","a","r","y">>],
    [abbr |-> <<"M","a","r">>, rest |-> <<"c","h">>],
    [abbr |-> <<"A","p","r">>, rest |-> <<"i","l">>],
    [abbr |-> <<"M","a","y">>, rest |-> <<>>],
    [abbr |-> <<"J","u","n">>, rest |-> <<"e">>],
    [abbr |-> <<"J","u","l">>, rest |-> <<"y">>],
    [abbr |-> <<"A","u","g">>, rest |-> <<"u","s","t">>],
    [abbr |-> <<"S","e","p">>, rest |-> <<"t","e","m","b","e","r">>],
    [abbr |-> <<"O","c","t">>, rest |-> <<"o","b","e","r">>],
    [abbr |-> <<"N","o","v">>, rest |-> <<"e","m","b","e","r">>],
    [abbr |-> <<"D","e","c">>, rest |-> <<"e","m","b","e","r">>] >>

\* atoms of a pattern: \b, a repeated character class, the month alternation
AtomB == [t |-> "b"]
AtomRep(cls, lo, hi) == [t |-> "rep", cls |-> cls, lo |-> lo, hi |-> hi]
AtomMonth == [t |-> "month"]
\* hi of an unbounded repetition (+)
Unbounded == -1

ClassOf(cls) ==
    CASE cls = "d" -> Digits
      [] cls = "s" -> Whitespace
      [] cls = "sep" -> Separators
      [] cls = "comma" -> {","}

\* self.date_patterns, most specific first
date_patterns == <<
    \* \b(\d{1,2}[-/]\d{1,2}[-/]\d{4})\b
    <<AtomB, AtomRep("d", 1, 2), AtomRep("sep", 1, 1), AtomRep("d", 1, 2),
      AtomRep("sep", 1, 1), AtomRep("d", 4, 4), AtomB>>,
    \* \b(\d{4}[-/]\d{1,2}[-/]\d{1,2})\b
    <<AtomB, AtomRep("d", 4, 4), AtomRep("sep", 1, 1), AtomRep("d", 1, 2),
      AtomRep("sep", 1, 1), AtomRep("d", 1, 2), AtomB>>,
    \* \b(?:Jan(?:uary)?|...)\s+\d{1,2},\s+\d{4}\b
    <<AtomB, AtomMonth, AtomRep("s", 1, Unbounded), AtomRep("d", 1, 2),
      AtomRep("comma", 1, 1), AtomRep("s", 1, Unbounded), AtomRep("d", 4, 4), AtomB>>,
    \* \b\d{1,2}\s+(?:Jan(?:uary)?|...)\s+\d{4}\b
    <<AtomB, AtomRep("d", 1, 2), AtomRep("s", 1, Unbounded), AtomMonth,
      AtomRep("s", 1, Unbounded), AtomRep("d", 4, 4), AtomB>>,
    \* \b(?:Jan(?:uary)?|...)\s+\d{4}\b
    <<AtomB, AtomMonth, AtomRep("s", 1, Unbounded), AtomRep("d", 4, 4), AtomB>> >>

NumPatterns == Len(date_patterns)

\* result of a failed match attempt
NoMatch == -1

\* \b at offset pos: exactly one side is a word character
WordBoundary(s, pos) ==
    (pos > 0 /\ s[pos] \in WordChars) # (pos < Len(s) /\ s[pos + 1] \in WordChars)

\* length of the run of characters of class cls from offset pos, at most hi
RECURSIVE RunLength(_, _, _, _)
RunLength(s, pos, cls, hi) ==
    IF hi = 0 \/ pos >= Len(s) \/ s[pos + 1] \notin ClassOf(cls) THEN 0
    ELSE 1 + RunLength(s, pos + 1, cls, IF hi = Unbounded THEN Unbounded ELSE hi - 1)

\* backtracking match of atoms[a..] at offset pos: the end offset of the
\* first successful alternative, or NoMatch
RECURSIVE MatchFrom(_, _, _, _), TryRep(_, _, _, _, _), TryMonth(_, _, _, _, _)
MatchFrom(atoms, a, s, pos) ==
    IF a > Len(atoms) THEN pos
    ELSE LET at == atoms[a]
         IN  CASE at.t = "b" ->
                    IF WordBoundary(s, pos) THEN MatchFrom(atoms, a + 1, s, pos)
                    ELSE NoMatch
               [] at.t = "rep" ->
                    TryRep(atoms, a, s, pos, RunLength(s, pos, at.cls, at.hi))
               [] at.t = "month" ->
                    TryMonth(atoms, a, s, pos, 1)

\* greedy repetition: the longest run first, then shorter ones down to lo
TryRep(atoms, a, s, pos, n) ==
    IF n < atoms[a].lo THEN NoMatch
    ELSE LET r == MatchFrom(atoms, a + 1, s, pos + n)
         IN  IF r # NoMatch THEN r ELSE TryRep(atoms, a, s, pos, n - 1)

\* the alternatives in order; within one, the optional tail first
TryMonth(atoms, a, s, pos, m) ==
    IF m > Len(Months) THEN NoMatch
    ELSE LET mo == Months[m]
             full == mo.abbr \o mo.rest
             r1 == IF HasAt(s, pos, full)
                   THEN MatchFrom(atoms, a + 1, s, pos + Len(full)) ELSE NoMatch
             r2 == IF HasAt(s, pos, mo.abbr)
                   THEN MatchFrom(atoms, a + 1, s, pos + Len(mo.abbr)) ELSE NoMatch
         IN  IF r1 # NoMatch THEN r1
             ELSE IF r2 # NoMatch THEN r2
             ELSE TryMonth(atoms, a, s, pos, m + 1)

\* re.match of pattern k on s at offset pos
MatchAt(k, s, pos) == MatchFrom(date_patterns[k], 1, s, pos)

\* the scan of re.findall from offset pos: leftmost match, then on from its end
RECURSIVE Scan(_, _, _)
Scan(k, s, pos) ==
    IF pos > Len(s) THEN <<>>
    ELSE LET e == MatchAt(k, s, pos)
         IN  IF e = NoMatch THEN Scan(k, s, pos + 1)
             ELSE <<[start |-> pos, end |-> e]>>
                  \o Scan(k, s, IF e > pos THEN e ELSE pos + 1)

\* re.findall(pattern, sentence): the matched texts, left to right
findall(k, s) ==
    LET spans == Scan(k, s, 0)
    IN  [i \in DOMAIN spans |-> SubSeq(s, spans[i].start + 1, spans[i].end)]

(*************************** sentence segmentation *************************)
\* re_split cutting at every run of whitespace, the lookbehind left out
RECURSIVE SplitFrom_AnyWhitespace(_, _, _)
SplitFrom_AnyWhitespace(t, from, pos) ==
    IF pos >= Len(t) THEN <<SubSeq(t, from + 1, Len(t))>>
    ELSE IF pos > 0 /\ IsSpace(t[pos + 1])
         THEN LET n == RunLength(t, pos, "s", Unbounded)
              IN  <<SubSeq(t, from + 1, pos)>>
                  \o SplitFrom_AnyWhitespace(t, pos + n, pos + n)
         ELSE SplitFrom_AnyWhitespace(t, from, pos + 1)

\* re.split(r'(?<=[.!?])\s+', t) scanning from offset pos; from is the
\* offset at which the current piece starts
RECURSIVE SplitFrom(_, _, _)
SplitFrom(t, from, pos) ==
    IF pos >= Len(t) THEN <<SubSeq(t, from + 1, Len(t))>>
    ELSE IF pos > 0 /\ t[pos] \in Terminators /\ IsSpace(t[pos + 1])
         THEN LET n == RunLength(t, pos, "s", Unbounded)
              IN  <<SubSeq(t, from + 1, pos)>> \o SplitFrom(t, pos + n, pos + n)
         ELSE SplitFrom(t, from, pos + 1)

re_split(t) == SplitFrom(t, 0, 0)

(*************************** record building *******************************)
\* expected_columns
expected_columns == <<"Date Found", "Event Description">>

\* pd.DataFrame(rows, columns=expected_columns)
DataFrame(rows) == [columns |-> expected_columns, rows |-> rows]

\* pd.DataFrame(columns=expected_columns)
EmptyFrame == DataFrame(<<>>)

\* the record with its date text normalized to lower case
Record_Normalized(match, sentence) ==
    [date_str |-> Lower(Strip(match)), event_description |-> Strip(sentence)]

\* the dictionary appended for one match
Record(match, sentence) ==
    [date_str |-> Strip(match), event_description |-> Strip(sentence)]

\* the records one pattern contributes for one sentence
PatternRecords(k, sentence) ==
    LET matches == findall(k, sentence)
    IN  [i \in DOMAIN matches |-> Record(matches[i], sentence)]

\* the pattern loop left at the first pattern that matches
RECURSIVE SentenceRecordsFrom_FirstPatternOnly(_, _)
SentenceRecordsFrom_FirstPatternOnly(k, sentence) ==
    IF k > NumPatterns THEN <<>>
    ELSE IF PatternRecords(k, sentence) # <<>> THEN PatternRecords(k, sentence)
    ELSE SentenceRecordsFrom_FirstPatternOnly(k + 1, sentence)

\* the pattern loop run from the loosest pattern to the most specific
RECURSIVE SentenceRecordsFrom_LoosestFirst(_, _)
SentenceRecordsFrom_LoosestFirst(k, sentence) ==
    IF k > NumPatterns THEN <<>>
    ELSE SentenceRecordsFrom_LoosestFirst(k + 1, sentence)
         \o PatternRecords(k, sentence)

\* for pattern in self.date_patterns: the patterns k..NumPatterns in order
RECURSIVE SentenceRecordsFrom(_, _)
SentenceRecordsFrom(k, sentence) ==
    IF k > NumPatterns THEN <<>>
    ELSE PatternRecords(k, sentence) \o SentenceRecordsFrom(k + 1, sentence)

SentenceRecords(sentence) == SentenceRecordsFrom(1, sentence)

\* for sentence in sentences: the sentences i..Len(ss) in order
RECURSIVE SentencesRecordsFrom(_, _)
SentencesRecordsFrom(ss, i) ==
    IF i > Len(ss) THEN <<>>
    ELSE SentenceRecords(ss[i]) \o SentencesRecordsFrom(ss, i + 1)

\* the body of the paragraph loop for one paragraph text
ParagraphRecords(para) ==
    LET t == Strip(para)
    IN  IF t = <<>> THEN <<>> ELSE SentencesRecordsFrom(re_split(t), 1)

\* the whole paragraph loop: the records of paragraphs i..Len(paras)
RECURSIVE ExtractFrom(_, _)
ExtractFrom(paras, i) ==
    IF i > Len(paras) THEN <<>>
    ELSE ParagraphRecords(paras[i]) \o ExtractFrom(paras, i + 1)

extract(paras) == ExtractFrom(paras, 1)

(*************************** inputs ****************************************)
\* the paragraph mark of the document body: it ends a paragraph
ParaMark == "PARA_MARK"

\* the vocabulary document bodies are written in: dates of the five shapes,
\* whitespace, sentence punctuation, a word, a digit, a trailing numeric
\* group, the paragraph mark alone and after a date
Vocabulary == <<
    <<"1","/","2","/","2","0","2","3"," ">>,
    <<"2","0","2","3","-","1","-","2">>,
    <<"F","e","b"," ","1",","," ","2","0","2","3">>,
    <<"1"," ","F","e","b","r","u","a","r","y"," ","2","0","2","3">>,
    <<"F","e","b"," ","2","0","2","3"," ">>,
    <<" ">>,
    <<".","\t"," ">>,
    <<"!"," ">>,
    <<"?">>,
    <<"x">>,
    <<"1">>,
    <<"-","1","-","2">>,
    <<ParaMark>>,
    <<"F","e","b"," ","2","0","2","3",ParaMark>> >>

\* the paragraphs of a document body: every paragraph mark ends one, and
\* text after the last mark is a paragraph of its own
RECURSIVE ParagraphsFrom(_, _, _)
ParagraphsFrom(body, i, cur) ==
    IF i > Len(body) THEN (IF cur = <<>> THEN <<>> ELSE <<cur>>)
    ELSE IF body[i] = ParaMark THEN <<cur>> \o ParagraphsFrom(body, i + 1, <<>>)
    ELSE ParagraphsFrom(body, i + 1, Append(cur, body[i]))

\* the document bodies of exactly n vocabulary tokens
RECURSIVE Bodies(_)
Bodies(n) ==
    IF n = 0 THEN {<<>>}
    ELSE {b \o Vocabulary[t] : b \in Bodies(n - 1), t \in DOMAIN Vocabulary}

\* document.paragraphs of the documents of at most n tokens
Documents(n) ==
    {ParagraphsFrom(b, 1, <<>>) : b \in UNION {Bodies(m) : m \in 0 .. n}}

InputPaths == { <<"a",".","d","o","c","x">>, <<"A",".","D","O","C","X">>,
                <<"a",".","t","x","t">>, <<"d","o","c","x">> }

OutputPaths == { <<"o",".","c","s","v">>, <<"O",".","C","S","V">>,
                 <<"o",".","x","l","s","x">>, <<"o",".","t","x","t">>,
                 <<"c","s","v">> }

ExtDocx == <<".","d","o","c","x">>
ExtCsv == <<".","c","s","v">>
ExtXlsx == <<".","x","l","s","x">>

(*************************** the file system *******************************)
\* no file at the output path
NoFile == [kind |-> "absent"]

\* df.to_csv(output_path, index=False) / df.to_excel(output_path, index=False)
WrittenFile(kind, frame) == [kind |-> kind, header |-> frame.columns, rows |-> frame.rows]

\* what a failed write can leave behind
PartialFile == [kind |-> "partial"]

(*************************** the program ***********************************)
\* df before extract_dates_from_docx has returned
NoFrame == [columns |-> <<>>, rows |-> <<>>]

Init ==
    /\ pc = "start"
    /\ docx_path \in InputPaths
    /\ path_exists \in BOOLEAN
    /\ document = <<>>
    /\ paraIdx = 0
    /\ text = <<>>
    /\ sentences = <<>>
    /\ extracted_data = <<>>
    /\ reader_raised = FALSE
    /\ discarded = 0
    /\ df = NoFrame
    /\ output_path = <<>>
    /\ write_failed = FALSE
    /\ attempts = 0
    /\ outFile = NoFile

\* the locals of extract_dates_from_docx are gone once it has returned
ReturnToMain(frame) ==
    /\ df' = frame
    /\ pc' = "save"
    /\ document' = <<>>
    /\ paraIdx' = 0
    /\ text' = <<>>
    /\ sentences' = <<>>
    /\ extracted_data' = <<>>

\* if not os.path.exists(docx_path): return the empty frame
CheckExists ==
    /\ pc = "start"
    /\ IF ~path_exists
       THEN /\ ReturnToMain(EmptyFrame)
            /\ UNCHANGED <<docx_path, path_exists, reader_raised, discarded,
                           output_path, write_failed, attempts, outFile>>
       ELSE /\ pc' = "check_ext"
            /\ UNCHANGED <<docx_path, path_exists, document, paraIdx, text, sentences,
                           extracted_data, reader_raised, discarded, df, output_path,
                           write_failed, attempts, outFile>>

\* if not docx_path.lower().endswith('.docx'): return the empty frame
CheckExtension ==
    /\ pc = "check_ext"
    /\ IF ~EndsWith(Lower(docx_path), ExtDocx)
       THEN /\ ReturnToMain(EmptyFrame)
            /\ UNCHANGED <<docx_path, path_exists, reader_raised, discarded,
                           output_path, write_failed, attempts, outFile>>
       ELSE /\ pc' = "open"
            /\ UNCHANGED <<docx_path, path_exists, document, paraIdx, text, sentences,
                           extracted_data, reader_raised, discarded, df, output_path,
                           write_failed, attempts, outFile>>

\* extracted_data = []; document = Document(docx_path), which reads one of docs
OpenDocument(docs) ==
    /\ pc = "open"
    /\ \E d \in docs : document' = d
    /\ extracted_data' = <<>>
    /\ paraIdx' = 0
    /\ pc' = "loop"
    /\ UNCHANGED <<docx_path, path_exists, text, sentences, reader_raised, discarded,
                   df, output_path, write_failed, attempts, outFile>>

\* the loop body skipping records that were already collected
ProcessParagraph_Deduplicating ==
    /\ pc = "loop"
    /\ paraIdx < Len(document)
    /\ paraIdx' = paraIdx + 1
    /\ LET t == Strip(document[paraIdx + 1])
       IN  /\ text' = t
           /\ IF t = <<>>
              THEN UNCHANGED <<sentences, extracted_data>>
              ELSE LET ss == re_split(t)
                       isNew(r) == \A i \in DOMAIN extracted_data : extracted_data[i] # r
                   IN  /\ sentences' = ss
                       /\ extracted_data' = extracted_data
                             \o SelectSeq(SentencesRecordsFrom(ss, 1), isNew)
    /\ UNCHANGED <<pc, docx_path, path_exists, document, reader_raised, discarded, df,
                   output_path, write_failed, attempts, outFile>>

\* one iteration of for para in document.paragraphs
ProcessParagraph ==
    /\ pc = "loop"
    /\ paraIdx < Len(document)
    /\ paraIdx' = paraIdx + 1
    /\ LET t == Strip(document[paraIdx + 1])
       IN  /\ text' = t
           /\ IF t = <<>>
              THEN UNCHANGED <<sentences, extracted_data>>
              ELSE LET ss == re_split(t)
                   IN  /\ sentences' = ss
                       /\ extracted_data' = extracted_data \o SentencesRecordsFrom(ss, 1)
    /\ UNCHANGED <<pc, docx_path, path_exists, document, reader_raised, discarded, df,
                   output_path, write_failed, attempts, outFile>>

\* the document reader raises, while opening or while yielding a paragraph
ReaderRaises ==
    /\ pc \in {"open", "loop"}
    /\ reader_raised' = TRUE
    /\ pc' = "except"
    /\ UNCHANGED <<docx_path, path_exists, document, paraIdx, text, sentences,
                   extracted_data, discarded, df, output_path, write_failed, attempts,
                   outFile>>

\* the handler returning what was collected before the reader raised
HandleException_ReturnsCollected ==
    /\ pc = "except"
    /\ discarded' = Len(extracted_data)
    /\ ReturnToMain(DataFrame(extracted_data))
    /\ UNCHANGED <<docx_path, path_exists, reader_raised, output_path, write_failed,
                   attempts, outFile>>

\* except Exception: return the empty frame
HandleException ==
    /\ pc = "except"
    /\ discarded' = Len(extracted_data)
    /\ ReturnToMain(EmptyFrame)
    /\ UNCHANGED <<docx_path, path_exists, reader_raised, output_path, write_failed,
                   attempts, outFile>>

\* the loop is over: the empty frame, or the frame of the collected records
ReturnFrame ==
    /\ pc = "loop"
    /\ paraIdx = Len(document)
    /\ ReturnToMain(IF extracted_data = <<>> THEN EmptyFrame
                    ELSE DataFrame(extracted_data))
    /\ UNCHANGED <<docx_path, path_exists, reader_raised, discarded, output_path,
                   write_failed, attempts, outFile>>

\* save_to_spreadsheet writing CSV for every extension it does not know
SaveToSpreadsheet_DefaultsToCsv(path, ok) ==
    /\ pc = "save"
    /\ output_path' = path
    /\ pc' = "done"
    /\ attempts' = attempts + 1
    /\ write_failed' = ~ok
    /\ IF ok
       THEN outFile' = WrittenFile(IF EndsWith(Lower(path), ExtXlsx)
                                   THEN "xlsx" ELSE "csv", df)
       ELSE outFile' \in {outFile, PartialFile}
    /\ UNCHANGED <<docx_path, path_exists, document, paraIdx, text, sentences,
                   extracted_data, reader_raised, discarded, df>>

\* save_to_spreadsheet with the early return on an empty frame
SaveToSpreadsheet_SkipsEmptyFrame(path, ok) ==
    /\ pc = "save"
    /\ output_path' = path
    /\ pc' = "done"
    /\ IF df.rows # <<>>
          /\ (EndsWith(Lower(path), ExtCsv) \/ EndsWith(Lower(path), ExtXlsx))
       THEN /\ attempts' = attempts + 1
            /\ write_failed' = ~ok
            /\ IF ok
               THEN outFile' = WrittenFile(IF EndsWith(Lower(path), ExtCsv)
                                           THEN "csv" ELSE "xlsx", df)
               ELSE outFile' \in {outFile, PartialFile}
       ELSE UNCHANGED <<attempts, write_failed, outFile>>
    /\ UNCHANGED <<docx_path, path_exists, document, paraIdx, text, sentences,
                   extracted_data, reader_raised, discarded, df>>

\* extractor.save_to_spreadsheet(extracted_df, args.output); ok is whether
\* the underlying to_csv / to_excel succeeds
SaveToSpreadsheet(path, ok) ==
    /\ pc = "save"
    /\ output_path' = path
    /\ pc' = "done"
    /\ IF EndsWith(Lower(path), ExtCsv) \/ EndsWith(Lower(path), ExtXlsx)
       THEN /\ attempts' = attempts + 1
            /\ write_failed' = ~ok
            /\ IF ok
               THEN outFile' = WrittenFile(IF EndsWith(Lower(path), ExtCsv)
                                           THEN "csv" ELSE "xlsx", df)
               ELSE outFile' \in {outFile, PartialFile}
       ELSE UNCHANGED <<attempts, write_failed, outFile>>
    /\ UNCHANGED <<docx_path, path_exists, document, paraIdx, text, sentences,
                   extracted_data, reader_raised, discarded, df>>

Save == \E path \in OutputPaths, ok \in BOOLEAN : SaveToSpreadsheet(path, ok)

\* what the reader can yield for docx_path
ReadableDocuments == Documents(MaxTokens)

\* what the reader can yield in the end-to-end runs
MainDocuments == Documents(MainMaxTokens)

Open == OpenDocument(ReadableDocuments)

OpenMain == OpenDocument(MainDocuments)

Next ==
    \/ CheckExists
    \/ CheckExtension
    \/ Open
    \/ ReaderRaises
    \/ ProcessParagraph
    \/ HandleException
    \/ ReturnFrame
    \/ Save

Spec == Init /\ [][Next]_vars

NextMain ==
    \/ CheckExists
    \/ CheckExtension
    \/ OpenMain
    \/ ReaderRaises
    \/ ProcessParagraph
    \/ HandleException
    \/ ReturnFrame
    \/ Save

\* main runs synchronously on one thread: an enabled step is taken
MainSpec == Init /\ [][NextMain]_vars /\ WF_vars(NextMain)

(*************************** properties ************************************)
\* the sentences the loop body derives from one paragraph
SentencesOf(para) ==
    IF Strip(para) = <<>> THEN <<>> ELSE re_split(Strip(para))

\* the paragraph loop has run to its end
LoopDone == pc = "loop" /\ paraIdx = Len(document)

\* every place <<start, end>> at which pattern k matches in s
AllMatches(k, s) ==
    {m \in {<<i, MatchAt(k, s, i)>> : i \in 0 .. Len(s)} : m[2] # NoMatch}

\* the leftmost non-overlapping matches of pattern k in s: a match is taken
\* exactly when no taken match that starts before it reaches over its start
LeftmostMatches(k, s) ==
    LET A == AllMatches(k, s)
    IN  CHOOSE S \in SUBSET A :
            \A m \in A : m \in S <=> ~\E n \in S : n[1] < m[1] /\ m[1] < n[2]

\* every match in the first n paragraphs: its paragraph p, sentence si,
\* pattern k and start offset, with the record it stands for (the matched
\* text and its sentence)
Hits(paras, n) ==
    UNION { LET ss == SentencesOf(paras[p])
            IN  UNION { UNION {
                    {[p |-> p, si |-> si, k |-> k, start |-> m[1], end |-> m[2],
                      rec |-> [date_str |-> SubSeq(ss[si], m[1] + 1, m[2]),
                               event_description |-> ss[si]]]
                        : m \in LeftmostMatches(k, ss[si])}
                    : k \in 1 .. NumPatterns }
                    : si \in DOMAIN ss }
            : p \in 1 .. n }

\* a occurs in b as a contiguous run of characters
IsSubstring(a, b) ==
    \E i \in 0 .. Len(b) - Len(a) : SubSeq(b, i + 1, i + Len(a)) = a

Occurrences(seq, x) == Cardinality({i \in DOMAIN seq : seq[i] = x})

\* the spans of s that are a date of one of the five shapes
DateSpans(s) == UNION {AllMatches(k, s) : k \in 1 .. NumPatterns}

\* the date spans not lying inside a longer date span
DateSubstrings(s) ==
    {m \in DateSpans(s) :
        ~\E n \in DateSpans(s) : n # m /\ n[1] <= m[1] /\ m[2] <= n[2]}

NonOverlapping(S) ==
    \A m \in S, n \in S : m # n => (m[2] <= n[1] \/ n[2] <= m[1])

\* C1: a paragraph that is one sentence holding exactly n (1 or 2)
\* non-overlapping date substrings yields exactly n records, each with the
\* sentence as description and one of the date substrings as date text
C1_RecordCountEqualsDates ==
    (LoopDone /\ Len(document) = 1 /\ Len(SentencesOf(document[1])) = 1) =>
        LET s == SentencesOf(document[1])[1]
            D == DateSubstrings(s)
        IN  (Cardinality(D) \in {1, 2} /\ NonOverlapping(D)) =>
                /\ Len(extracted_data) = Cardinality(D)
                /\ \A i \in DOMAIN extracted_data :
                      /\ extracted_data[i].event_description = s
                      /\ \E m \in D :
                            extracted_data[i].date_str = SubSeq(s, m[1] + 1, m[2])

HitBefore(g, h) ==
    \/ g.p < h.p
    \/ g.p = h.p /\ g.si < h.si
    \/ g.p = h.p /\ g.si = h.si /\ g.k < h.k
    \/ g.p = h.p /\ g.si = h.si /\ g.k = h.k /\ g.start < h.start

C4_RecordShape ==
    /\ pc = "loop" =>
          \A i \in DOMAIN extracted_data :
              LET r == extracted_data[i]
              IN  /\ \E p \in 1 .. paraIdx :
                        \E si \in DOMAIN SentencesOf(document[p]) :
                            SentencesOf(document[p])[si] = r.event_description
                  /\ r.event_description # <<>>
                  /\ ~IsSpace(r.event_description[1])
                  /\ ~IsSpace(r.event_description[Len(r.event_description)])
    /\ \A r \in Range(extracted_data) \cup Range(df.rows) :
          /\ r.date_str # <<>>
          /\ IsSubstring(r.date_str, r.event_description)
          /\ ~IsSpace(r.date_str[1])
          /\ ~IsSpace(r.date_str[Len(r.date_str)])

\* a date found in the second sentence of a paragraph has been recorded
C4_Witness ==
    /\ LoopDone
    /\ Len(sentences) = 2
    /\ \E i \in DOMAIN extracted_data :
          /\ extracted_data[i].event_description = sentences[2]
          /\ Len(extracted_data[i].date_str) < Len(sentences[2])

\* C5: writing the month names of a document in lower case or in upper case
\* does not change the number of records
C5_MonthCaseInsensitive ==
    LoopDone =>
        /\ Len(extract([i \in DOMAIN document |-> Lower(document[i])]))
             = Len(extracted_data)
        /\ Len(extract([i \in DOMAIN document |-> Upper(document[i])]))
             = Len(extracted_data)

\* the positions of t at which a sentence ends: a '.', '!' or '?' with
\* whitespace right after it
SplitPoints(t) ==
    {i \in 1 .. Len(t) - 1 : t[i] \in {".", "!", "?"} /\ t[i + 1] \in {" ", "\t", "\n"}}

\* s with every run of whitespace replaced by one space
RECURSIVE NormalizeSpace(_)
NormalizeSpace(s) ==
    IF s = <<>> THEN <<>>
    ELSE IF s[1] \in {" ", "\t", "\n"}
         THEN IF Len(s) > 1 /\ s[2] \in {" ", "\t", "\n"}
              THEN NormalizeSpace(Tail(s))
              ELSE <<" ">> \o NormalizeSpace(Tail(s))
         ELSE <<s[1]>> \o NormalizeSpace(Tail(s))

\* the sentences i.. of ss joined by one space
RECURSIVE JoinFrom(_, _)
JoinFrom(ss, i) ==
    IF i > Len(ss) THEN <<>>
    ELSE IF i = Len(ss) THEN ss[i]
    ELSE ss[i] \o <<" ">> \o JoinFrom(ss, i + 1)

\* C6: the sentences of a trimmed paragraph are cut exactly at the runs of
\* whitespace that follow '.', '!' or '?', the punctuation staying with the
\* sentence before; no sentence is empty, and joining them with one space
\* gives back the paragraph up to whitespace normalization
C6_SentenceSegmentation ==
    (pc = "loop" /\ text # <<>>) =>
        /\ Len(sentences) = Cardinality(SplitPoints(text)) + 1
        /\ \A i \in DOMAIN sentences :
              /\ sentences[i] # <<>>
              /\ sentences[i][1] \notin {" ", "\t", "\n"}
              /\ sentences[i][Len(sentences[i])] \notin {" ", "\t", "\n"}
              /\ SplitPoints(sentences[i]) = {}
              /\ i < Len(sentences) =>
                    sentences[i][Len(sentences[i])] \in {".", "!", "?"}
        /\ NormalizeSpace(JoinFrom(sentences, 1)) = NormalizeSpace(text)

\* a paragraph cut in two at a run of two whitespace characters, whose
\* closing punctuation at the paragraph end cuts nothing
C6_Witness ==
    /\ pc = "loop"
    /\ Len(sentences) = 2
    /\ Len(text) = Len(sentences[1]) + Len(sentences[2]) + 2
    /\ text[Len(text)] \in {".", "!", "?"}

\* the input failures of extract_dates_from_docx
InputFailure ==
    \/ ~path_exists
    \/ ~EndsWith(Lower(docx_path), <<".","d","o","c","x">>)
    \/ reader_raised

\* C7: a missing path, a path that is not a .docx path or a reader that
\* raises gives a frame of zero rows with the columns 'Date Found' and
\* 'Event Description', and no exception leaves the call; records collected
\* before the reader raised are not returned
C7_FailureGivesEmptyFrame ==
    /\ pc # "raised"
    /\ (pc \in {"save", "done"} /\ InputFailure) =>
          /\ df.rows = <<>>
          /\ df.columns = <<"Date Found", "Event Description">>

\* the reader raised after records had been collected
C7_Witness ==
    /\ pc = "save"
    /\ reader_raised
    /\ discarded > 0
    /\ df.rows = <<>>

\* the extension of path is one save_to_spreadsheet writes
Recognized(path) ==
    \/ EndsWith(Lower(path), <<".","c","s","v">>)
    \/ EndsWith(Lower(path), <<".","x","l","s","x">>)

\* C8: save_to_spreadsheet always returns normally and leaves the frame
\* alone; with an extension other than .csv and .xlsx it writes nothing,
\* and a failed write is tried once and not raised
C8_SaveNeverRaises ==
    [][pc = "save" =>
          /\ pc' = "done"
          /\ df' = df
          /\ attempts' <= attempts + 1
          /\ ~Recognized(output_path') => (outFile' = outFile /\ attempts' = attempts)
          /\ write_failed' => attempts' = attempts + 1]_vars

\* a frame with rows was saved to a path with an unsupported extension
C8_Witness ==
    /\ pc = "done"
    /\ ~Recognized(output_path)
    /\ df.rows # <<>>
    /\ outFile = NoFile

\* the output file holds the header row and no data rows
HeaderOnlyFile ==
    /\ outFile.kind \in {"csv", "xlsx"}
    /\ outFile.header = <<"Date Found", "Event Description">>
    /\ outFile.rows = <<>>

\* the input of the run yields no records
EmptyOutcome == InputFailure \/ df.rows = <<>>

IsPrefix(a, b) == Len(a) <= Len(b) /\ SubSeq(b, 1, Len(a)) = a

\* seq without the paragraphs that are empty after trimming
RECURSIVE NonBlank(_)
NonBlank(seq) ==
    IF seq = <<>> THEN <<>>
    ELSE IF Strip(Head(seq)) = <<>> THEN NonBlank(Tail(seq))
    ELSE <<Head(seq)>> \o NonBlank(Tail(seq))

\* C10: the records of the paragraphs processed so far are those of any
\* leading part followed by those of the rest, they are the records of the
\* non-blank paragraphs alone, and a step of the paragraph loop only appends
C10_ExtractionIsCompositional ==
    /\ [](pc = "loop" =>
            LET done == SubSeq(document, 1, paraIdx)
            IN  /\ \A j \in 0 .. paraIdx :
                      extracted_data = extract(SubSeq(done, 1, j))
                                         \o extract(SubSeq(done, j + 1, paraIdx))
                /\ extracted_data = extract(NonBlank(done)))
    /\ [][(pc = "loop" /\ pc' = "loop") => IsPrefix(extracted_data, extracted_data')]_vars

\* two paragraphs that both gave records have been processed
C10_Witness ==
    /\ pc = "loop"
    /\ paraIdx = 2
    /\ extract(<<document[1]>>) # <<>>
    /\ extract(<<document[2]>>) # <<>>
    /\ Len(extracted_data) >= 2

====
